---- MODULE Spec2Model ----
(***************************************************************************)
(* Upload orchestration and results presentation of the MetaMed rater web  *)
(* client.  The repository ships two variants of the same script:          *)
(*   "main"   = src/templates/static/js/upload.js         (pagination)     *)
(*   "backup" = src/templates/static/js/upload_backup.js  (dedup, reset,   *)
(*              notifications, result cards appended by 100 ms timers)     *)
(* The variable `variant` selects the script that is loaded in the page.   *)
(* Every event handler runs to completion, so each handler is one action.  *)
(* Texts are sequences of strings so that a path can be split on "/".      *)
(* Purely decorative DOM changes (CSS classes of file items, scrolling,    *)
(* summary cards, the transient notification toasts) are outside the model.*)
(***************************************************************************)
EXTENDS Integers, Sequences, FiniteSets, TLC

(* ------------------------------ bounds ------------------------------- *)
MaxFiles == 2        \* longest pending list explored
MaxCands == 2        \* longest candidate list of one drop / picker change
MaxXhr == 2          \* most transfers in flight at once
MaxTimers == 3       \* most result timers pending at once
MaxTotal == 1        \* largest e.total of a progress event in a session
MaxPathLen == 3      \* longest file_path of the interpreter inputs
MaxSucc == 2         \* longest data.results.successful of the interpreter inputs
MaxFail == 1         \* longest data.results.failed of the interpreter inputs

(* ------------------------------ values ------------------------------- *)
None == <<>>
Some(x) == <<x>>

FileNames == {"a", "q\""}
FileSizes == {1, 2}
Files == [name : FileNames, size : FileSizes]
SessionFiles == {f \in Files : f.size = 1}   \* the files a session picks from

RECURSIVE SeqsUpTo(_, _)
SeqsUpTo(S, n) ==
    IF n = 0 THEN {<<>>}
    ELSE LET shorter == SeqsUpTo(S, n - 1)
         IN  shorter \cup {Append(s, x) : s \in {t \in shorter : Len(t) = n - 1}, x \in S}

(* document.querySelector(`.file-item[data-filename="${name}"]`) raises a  *)
(* SyntaxError when the name closes the attribute string early.            *)
SelectorIsValid(name) == name # "q\""

RECURSIVE SelectSeq2(_, _, _)
(* Array.prototype.filter with a predicate given as a set of kept values *)
SelectSeq2(s, keep, i) ==
    IF i > Len(s) THEN <<>>
    ELSE IF s[i] \in keep THEN <<s[i]>> \o SelectSeq2(s, keep, i + 1)
    ELSE SelectSeq2(s, keep, i + 1)

Range(s) == {s[i] : i \in 1..Len(s)}

(* relative index of Array.prototype.slice / splice: a negative index     *)
(* counts from the end, and the result is kept within 0..len               *)
RelativeIndex(index, len) ==
    IF index < 0 THEN (IF len + index < 0 THEN 0 ELSE len + index)
    ELSE IF index > len THEN len ELSE index

(* Array.prototype.splice(index, 1) for a 0-based index *)
Splice(s, index) ==
    LET start == RelativeIndex(index, Len(s))
    IN  IF start >= Len(s) THEN s
        ELSE SubSeq(s, 1, start) \o SubSeq(s, start + 2, Len(s))

(* Array.prototype.slice(start, end) for 0-based indices *)
Slice(s, start, end) ==
    LET from == RelativeIndex(start, Len(s))
        to == RelativeIndex(end, Len(s))
    IN  IF from >= to THEN <<>> ELSE SubSeq(s, from + 1, to)

(* ------------------------------ state -------------------------------- *)
VARIABLES
    variant,              \* which script the page loaded
    filesToUpload,        \* let filesToUpload
    uploadButtonDisabled, \* uploadButton.disabled
    resetButtonDisabled,  \* resetButton.disabled              (backup)
    resetButtonHidden,    \* resetButton has class hidden      (backup)
    processingComplete,   \* let processingComplete            (backup)
    uploadProgressHidden, \* uploadProgress has class hidden
    uploadStatus,         \* uploadStatus.textContent
    progressPercent,      \* progressPercent.textContent / progressBar width
    progressBarUploading, \* progressBar has class uploading
    currentFileSpan,      \* currentFileSpan.textContent       (backup)
    resultsSectionHidden, \* resultsSection has class hidden
    resultsContainer,     \* result cards inside resultsContainer
    resultsCount,         \* resultsCount.textContent          (backup)
    allResults,           \* window.allResults                 (main)
    currentPage,          \* window.currentPage                (main)
    resultsPerPage,       \* window.resultsPerPage             (main)
    pagination,           \* the rendered pagination buttons   (main)
    xhrs,                 \* FormData of every request in flight
    timers,               \* pending setTimeout callbacks of showResults
    uncaught,             \* exception the latest handler let escape
    response              \* the payload the latest load handler parsed, if any

vars == <<variant, filesToUpload, uploadButtonDisabled, resetButtonDisabled,
          resetButtonHidden, processingComplete, uploadProgressHidden,
          uploadStatus, progressPercent, progressBarUploading, currentFileSpan,
          resultsSectionHidden, resultsContainer, resultsCount, allResults,
          currentPage, resultsPerPage, pagination, xhrs, timers,
          uncaught, response>>

fileVars == <<filesToUpload, uploadButtonDisabled, resetButtonHidden>>
progressVars == <<uploadProgressHidden, uploadStatus, progressPercent,
                  progressBarUploading, currentFileSpan>>
resultVars == <<resultsSectionHidden, resultsContainer, resultsCount,
                allResults, currentPage, resultsPerPage, pagination, timers,
                response>>

StatusText(kind, file, pct) == [kind |-> kind, file |-> file, pct |-> pct]
NoStatus == StatusText("", "", 0)
NoPagination == [pages |-> 0, at |-> 0]

(* The page as the template delivers it: nothing picked, the upload       *)
(* button disabled, the progress block, the results section and the reset  *)
(* button hidden (the scripts only ever un-hide them).                     *)
Init ==
    /\ variant \in {"main", "backup"}
    /\ filesToUpload = <<>>
    /\ uploadButtonDisabled = TRUE
    /\ resetButtonDisabled = FALSE
    /\ resetButtonHidden = TRUE
    /\ processingComplete = FALSE
    /\ uploadProgressHidden = TRUE
    /\ uploadStatus = NoStatus
    /\ progressPercent = 0
    /\ progressBarUploading = FALSE
    /\ currentFileSpan = ""
    /\ resultsSectionHidden = TRUE
    /\ resultsContainer = <<>>
    /\ resultsCount = [error |-> FALSE, total |-> 0]
    /\ allResults = <<>>
    /\ currentPage = 0
    /\ resultsPerPage = 0
    /\ pagination = NoPagination
    /\ xhrs = <<>>
    /\ timers = <<>>
    /\ uncaught = "none"
    /\ response = None

(* --------------------------- FileSetManager -------------------------- *)
(* updateUploadButton: the value it gives uploadButton.disabled *)
UploadDisabledFor(files, done) ==
    IF variant = "main" THEN Len(files) = 0
    ELSE (~(Len(files) > 0)) \/ done

(* the new files put in front of the list instead of behind it *)
FilesAfterAdd_Front(files, cands) ==
    IF variant = "main" THEN cands \o files
    ELSE SelectSeq2(cands, Range(cands) \ Range(files), 1) \o files

(* handleFiles: the list filesToUpload is replaced by *)
FilesAfterAdd(files, cands) ==
    IF variant = "main" THEN files \o cands
    ELSE files \o SelectSeq2(cands, Range(cands) \ Range(files), 1)

(* handleDrop / handleFileSelect -> handleFiles(files) *)
HandleFiles(cands) ==
    /\ Len(FilesAfterAdd(filesToUpload, cands)) <= MaxFiles
    /\ IF variant = "backup" /\ FilesAfterAdd(filesToUpload, cands) = filesToUpload
       THEN UNCHANGED fileVars
       ELSE /\ filesToUpload' = FilesAfterAdd(filesToUpload, cands)
            /\ uploadButtonDisabled' = UploadDisabledFor(filesToUpload', processingComplete)
            /\ resetButtonHidden' = IF variant = "backup" THEN Len(filesToUpload') = 0
                                    ELSE resetButtonHidden
    /\ uncaught' = "none"
    /\ UNCHANGED <<variant, resetButtonDisabled, processingComplete, progressVars,
                   resultVars, xhrs>>

(* the remove button of row `index` -> splice (main) / removeFile (backup) *)
RemoveFile(index) ==
    /\ filesToUpload' = Splice(filesToUpload, index)
    /\ uploadButtonDisabled' = UploadDisabledFor(filesToUpload', processingComplete)
    /\ resetButtonHidden' = IF variant = "backup" THEN Len(filesToUpload') = 0
                            ELSE resetButtonHidden
    /\ IF variant = "backup"
       THEN IF index < 0 \/ index >= Len(filesToUpload)
            THEN uncaught' = "TypeError"
            ELSE uncaught' = "none"
       ELSE uncaught' = "none"
    /\ UNCHANGED <<variant, resetButtonDisabled, processingComplete, progressVars,
                   resultVars, xhrs>>

(* clearAllButton -> clearAllFiles; `confirmed` is the answer to confirm() *)
ClearAllFiles(confirmed) ==
    /\ variant = "backup"
    /\ Len(filesToUpload) > 0
    /\ IF confirmed
       THEN /\ filesToUpload' = <<>>
            /\ uploadButtonDisabled' = UploadDisabledFor(filesToUpload', processingComplete)
            /\ resetButtonHidden' = TRUE
       ELSE UNCHANGED fileVars
    /\ uncaught' = "none"
    /\ UNCHANGED <<variant, resetButtonDisabled, processingComplete, progressVars,
                   resultVars, xhrs>>

(* resetForm, the body shared by resetButton and newUploadButton *)
ResetFormBody ==
    /\ filesToUpload' = <<>>
    /\ processingComplete' = FALSE
    /\ uploadButtonDisabled' = UploadDisabledFor(filesToUpload', processingComplete')
    /\ resetButtonHidden' = TRUE
    /\ uploadProgressHidden' = TRUE
    /\ resultsSectionHidden' = TRUE
    /\ uncaught' = "none"
    /\ UNCHANGED <<variant, resetButtonDisabled, uploadStatus, progressPercent,
                   progressBarUploading, currentFileSpan, resultsContainer,
                   resultsCount, allResults, currentPage, resultsPerPage,
                   pagination, timers, response, xhrs>>

(* a click reaches a button that is neither disabled nor hidden *)
ResetButtonUsable == variant = "backup" /\ ~resetButtonDisabled /\ ~resetButtonHidden

(* newUploadButton is never disabled or hidden by the script itself; it is *)
(* taken to sit inside resultsSection and to be hidden with it.            *)
NewUploadButtonUsable == variant = "backup" /\ ~resultsSectionHidden

(* resetButton click -> resetForm *)
ResetForm ==
    /\ ResetButtonUsable
    /\ ResetFormBody

(* newUploadButton click -> startNewUpload -> resetForm *)
StartNewUpload ==
    /\ NewUploadButtonUsable
    /\ ResetFormBody

(* --------------------------- upload command -------------------------- *)
(* uploadButton click -> handleUpload *)
HandleUpload ==
    /\ ~uploadButtonDisabled
    /\ Len(xhrs) < MaxXhr
    /\ IF Len(filesToUpload) = 0
       THEN /\ uncaught' = "none"
            /\ UNCHANGED <<variant, fileVars, resetButtonDisabled, processingComplete,
                           progressVars, resultVars, xhrs>>
       ELSE /\ uploadProgressHidden' = FALSE
            /\ currentFileSpan' = IF variant = "backup" THEN "Initializing..."
                                  ELSE currentFileSpan
            /\ uncaught' = "none"
            /\ IF SelectorIsValid(filesToUpload[1].name)
               THEN \* updateCurrentFile() returned, the request is sent
                    /\ uploadStatus' = StatusText("Preparing", "", 0)
                    /\ uploadButtonDisabled' = TRUE
                    /\ resetButtonDisabled' = IF variant = "backup" THEN TRUE
                                              ELSE resetButtonDisabled
                    /\ xhrs' = Append(xhrs, filesToUpload)
               ELSE \* updateCurrentFile() threw, the catch block ran
                    /\ uploadStatus' = StatusText("Error", "", 0)
                    /\ uploadButtonDisabled' = FALSE
                    /\ resetButtonDisabled' = IF variant = "backup" THEN FALSE
                                              ELSE resetButtonDisabled
                    /\ UNCHANGED xhrs
            /\ UNCHANGED <<variant, filesToUpload, resetButtonHidden,
                           processingComplete, progressPercent,
                           progressBarUploading, resultVars>>

(* --------------------------- ProgressTracker ------------------------- *)
(* the share still to send instead of the share sent *)
PercentComplete_Remaining(loaded, total) ==
    (200 * (total - loaded) + total) \div (2 * total)

(* Math.round((loaded / total) * 100): the nearest integer, a half going   *)
(* up.  For every total within the bounds of this module the doubles       *)
(* loaded / total * 100 round to the same integer as the exact quotient;   *)
(* the first total at which they differ is 40 (loaded 23 gives 57).        *)
PercentComplete(loaded, total) == (200 * loaded + total) \div (2 * total)

(* the 0-based index of the file the progress handler names as current *)
CurrentIndex(loaded, total, fileCount) ==
    IF variant = "main" THEN 0
    ELSE LET currentIndex == (loaded * fileCount) \div total
         IN  IF currentIndex < fileCount - 1 THEN currentIndex ELSE fileCount - 1

(* updateProgress(percent): the status text it leaves *)
StatusAfterUpdateProgress(percent) ==
    IF percent = 100 THEN StatusText("Processing", "", 0) ELSE uploadStatus

(* xhr.upload 'progress' listener of request i.  In the backup script      *)
(* updateFileStatus looks the named file up with querySelector, which      *)
(* throws on a name that is no valid selector: the listener then ends      *)
(* before it writes the 'Uploading files' text.                            *)
XhrProgress(i, lengthComputable, loaded, total) ==
    /\ i \in 1..Len(xhrs)
    /\ IF lengthComputable
       THEN LET percentComplete == PercentComplete(loaded, total)
                index == CurrentIndex(loaded, total, Len(filesToUpload))
                named == index >= 0 /\ index < Len(filesToUpload)
                thrown == /\ variant = "backup"
                          /\ named
                          /\ ~SelectorIsValid(filesToUpload[index + 1].name)
            IN  /\ progressPercent' = percentComplete
                /\ progressBarUploading' = (percentComplete = 100)
                /\ uploadStatus' =
                      IF thrown THEN StatusAfterUpdateProgress(percentComplete)
                      ELSE StatusText("Uploading",
                                      IF variant = "backup" THEN ""
                                      ELSE IF named THEN filesToUpload[index + 1].name
                                      ELSE "files",
                                      percentComplete)
                /\ currentFileSpan' =
                      IF variant = "backup" /\ named
                      THEN filesToUpload[index + 1].name
                      ELSE currentFileSpan
                /\ uncaught' = IF thrown THEN "SyntaxError" ELSE "none"
                /\ UNCHANGED uploadProgressHidden
       ELSE uncaught' = "none" /\ UNCHANGED progressVars
    /\ UNCHANGED <<variant, fileVars, resetButtonDisabled, processingComplete,
                   resultVars, xhrs>>

(* a listener of request i that throws outside any try block: the 'error'  *)
(* and 'timeout' listeners, and the 'load' listener on a status other than *)
(* 200.  The request is over; nothing else changes.                        *)
XhrThrows(i, event) ==
    /\ i \in 1..Len(xhrs)
    /\ event = "timeout" => variant = "backup"
    /\ xhrs' = Splice(xhrs, i - 1)
    /\ uncaught' = "Error"
    /\ UNCHANGED <<variant, fileVars, resetButtonDisabled, processingComplete,
                   progressVars, resultVars>>

(* --------------------------- ResultInterpreter ----------------------- *)
(* a ?? b in place of a || b: only an absent value takes the fallback *)
OrElse_Nullish(opt, fallback) == IF opt # None THEN opt[1] ELSE fallback

(* a || b on an optional string: absent and "" are both falsy *)
OrElse(opt, fallback) == IF opt # None /\ opt[1] # <<>> THEN opt[1] ELSE fallback

RECURSIVE Split(_)
(* String.prototype.split('/') of a text given as its characters *)
Split(path) ==
    IF path = <<>> THEN << <<>> >>
    ELSE LET front == Split(SubSeq(path, 1, Len(path) - 1))
             c == path[Len(path)]
         IN  IF c = "/" THEN Append(front, <<>>)
             ELSE SubSeq(front, 1, Len(front) - 1)
                    \o << Append(front[Len(front)], c) >>

(* file_path.split('/').pop() *)
BaseName(path) == Split(path)[Len(Split(path))]

(* response.data?.results?.successful || [] and the same for failed *)
ResultsOf(resp) ==
    IF resp.data # None /\ resp.data[1].results # None
    THEN resp.data[1].results[1]
    ELSE [successful |-> None, failed |-> None]
Successful(resp) ==
    IF ResultsOf(resp).successful # None THEN ResultsOf(resp).successful[1] ELSE <<>>
Failed(resp) ==
    IF ResultsOf(resp).failed # None THEN ResultsOf(resp).failed[1] ELSE <<>>

Tagged(type, entries) == [i \in 1..Len(entries) |-> [type |-> type, data |-> entries[i]]]

(* the two forEach loops in the opposite order *)
CollectResults_FailedFirst(resp) ==
    Tagged("error", Failed(resp)) \o Tagged("success", Successful(resp))

(* the records showResults collects, in the order it collects them *)
CollectResults(resp) == Tagged("success", Successful(resp)) \o Tagged("error", Failed(resp))

Card(type, title, detail) == [type |-> type, title |-> title, detail |-> detail]

(* createSuccessCard (main) / createResultCard('success', file) plus the   *)
(* updateFileStatus call before it (backup): does building the card throw? *)
SuccessCardThrows(file) ==
    IF variant = "main" THEN file.result = None \/ file.file_path = None
    ELSE file.file_path = None
SuccessCard(file) == Card("success", BaseName(file.file_path[1]), file.result)

(* createErrorCard (main) / createResultCard('error', file) (backup) *)
ErrorCard(file) ==
    Card("error", OrElse(file.file_path, <<"Unknown file">>),
                  OrElse(file.error, <<"Unknown error">>))

(* the single card of a success: false payload *)
SystemErrorCard(resp) ==
    Card("error",
         IF variant = "main" THEN <<"Error Processing Files">> ELSE <<"System Error">>,
         OrElse(resp.error, <<"An unknown error occurred">>))

RecordThrows(rec) == rec.type = "success" /\ SuccessCardThrows(rec.data)
RecordCard(rec) == IF rec.type = "success" THEN SuccessCard(rec.data) ELSE ErrorCard(rec.data)

(* ---------------------------- ResultPaginator ------------------------ *)
(* the quotient rounded down instead of up *)
TotalPages_Floor(results, perPage) == Len(results) \div perPage

(* Math.ceil(window.allResults.length / window.resultsPerPage) *)
TotalPages(results, perPage) == (Len(results) + perPage - 1) \div perPage

(* window.allResults.slice(startIndex, endIndex) *)
PageSlice(results, page, perPage) ==
    LET startIndex == (page - 1) * perPage
        endIndex == startIndex + perPage
    IN  Slice(results, startIndex, endIndex)

(* one page button too many *)
PaginationControls_ExtraPage(results, page, perPage) ==
    IF TotalPages(results, perPage) <= 1 THEN NoPagination
    ELSE [pages |-> TotalPages(results, perPage) + 1, at |-> page]

(* createPaginationControls: the buttons it leaves in the container *)
PaginationControls(results, page, perPage) ==
    IF TotalPages(results, perPage) <= 1 THEN NoPagination
    ELSE [pages |-> TotalPages(results, perPage), at |-> page]

RECURSIVE RenderCards(_, _)
(* the forEach of displayResultsPage, which stops at the first throw *)
RenderCards(slice, i) ==
    IF i > Len(slice) \/ RecordThrows(slice[i]) THEN <<>>
    ELSE <<RecordCard(slice[i])>> \o RenderCards(slice, i + 1)

(* displayResultsPage: cards shown, buttons left, and whether it threw *)
DisplayResultsPage(results, page, perPage) ==
    LET slice == PageSlice(results, page, perPage)
        thrown == \E i \in 1..Len(slice) : RecordThrows(slice[i])
    IN  [cards |-> RenderCards(slice, 1),
         pagination |-> IF thrown THEN NoPagination
                        ELSE PaginationControls(results, page, perPage),
         thrown |-> thrown]

ResultsPerPage == 1

RECURSIVE Schedule(_, _, _)
(* setTimeout(..., index * 100) for records k..: a timer runs after every  *)
(* pending timer that is due no later; `due` counts units of 100 ms.       *)
Schedule(pending, records, k) ==
    IF k > Len(records) THEN pending
    ELSE LET timer == [due |-> k - 1, rec |-> records[k]]
             before == Cardinality({j \in 1..Len(pending) : pending[j].due <= timer.due})
         IN  Schedule(SubSeq(pending, 1, before) \o <<timer>>
                        \o SubSeq(pending, before + 1, Len(pending)),
                      records, k + 1)

(* the results are shown but the progress block is left in place *)
RevealResults_KeepProgress ==
    /\ resultsSectionHidden' = FALSE
    /\ UNCHANGED uploadProgressHidden

(* showResults, first lines: the progress block gives way to the results *)
RevealResults ==
    /\ uploadProgressHidden' = TRUE
    /\ resultsSectionHidden' = FALSE

(* showResults(response), main script *)
ShowResultsMain(resp) ==
    /\ RevealResults
    /\ IF resp.success
       THEN LET shown == DisplayResultsPage(CollectResults(resp), 1, ResultsPerPage)
            IN  /\ allResults' = CollectResults(resp)
                /\ currentPage' = 1
                /\ resultsPerPage' = ResultsPerPage
                /\ resultsContainer' = shown.cards
                /\ pagination' = shown.pagination
                /\ IF shown.thrown
                   THEN /\ uncaught' = "TypeError"
                        /\ UNCHANGED <<filesToUpload, uploadButtonDisabled>>
                   ELSE /\ uncaught' = "none"
                        /\ filesToUpload' = <<>>
                        /\ uploadButtonDisabled' = FALSE
       ELSE /\ resultsContainer' = <<SystemErrorCard(resp)>>
            /\ pagination' = NoPagination
            /\ uncaught' = "none"
            /\ filesToUpload' = <<>>
            /\ uploadButtonDisabled' = FALSE
            /\ UNCHANGED <<allResults, currentPage, resultsPerPage>>
    /\ UNCHANGED <<resetButtonDisabled, resetButtonHidden, processingComplete,
                   resultsCount, timers>>

(* showResults(response), backup script *)
ShowResultsBackup(resp) ==
    /\ Len(timers) + Len(CollectResults(resp)) <= MaxTimers
    /\ RevealResults
    /\ IF resp.success
       THEN /\ resultsCount' = [error |-> FALSE, total |-> Len(Successful(resp)) + Len(Failed(resp))]
            /\ resultsContainer' = <<>>
            /\ timers' = Schedule(timers, CollectResults(resp), 1)
       ELSE /\ resultsCount' = [error |-> TRUE, total |-> 0]
            /\ resultsContainer' = <<SystemErrorCard(resp)>>
            /\ UNCHANGED timers
    /\ processingComplete' = TRUE
    /\ uploadButtonDisabled' = UploadDisabledFor(filesToUpload, processingComplete')
    /\ resetButtonHidden' = (Len(filesToUpload) = 0)
    /\ uncaught' = "none"
    /\ UNCHANGED <<filesToUpload, resetButtonDisabled, allResults, currentPage,
                   resultsPerPage, pagination>>

(* 'load' listener of request i with xhr.status 200 and body `resp` *)
XhrLoad(i, resp) ==
    /\ i \in 1..Len(xhrs)
    /\ xhrs' = Splice(xhrs, i - 1)
    /\ response' = Some(resp)
    /\ IF variant = "main" THEN ShowResultsMain(resp) ELSE ShowResultsBackup(resp)
    /\ UNCHANGED <<variant, uploadStatus, progressPercent, progressBarUploading,
                   currentFileSpan>>

(* one callback scheduled by showResults runs (backup) *)
TimerFires ==
    /\ Len(timers) > 0
    /\ timers[1].due = 0
    /\ timers' = Tail(timers)
    /\ IF RecordThrows(timers[1].rec)
       THEN /\ uncaught' = "TypeError"
            /\ UNCHANGED resultsContainer
       ELSE /\ uncaught' = "none"
            /\ resultsContainer' = Append(resultsContainer, RecordCard(timers[1].rec))
    /\ UNCHANGED <<variant, fileVars, resetButtonDisabled, processingComplete,
                   progressVars, resultsSectionHidden, resultsCount, allResults,
                   currentPage, resultsPerPage, pagination, response, xhrs>>

(* 100 ms pass *)
Tick ==
    /\ \E j \in 1..Len(timers) : timers[j].due > 0
    /\ timers' = [j \in 1..Len(timers) |->
                    [timers[j] EXCEPT !.due = IF @ > 0 THEN @ - 1 ELSE 0]]
    /\ UNCHANGED <<variant, fileVars, resetButtonDisabled, processingComplete,
                   progressVars, resultsSectionHidden, resultsContainer,
                   resultsCount, allResults, currentPage, resultsPerPage,
                   pagination, response, xhrs, uncaught>>

(* the tail shared by the three pagination listeners: displayResultsPage() *)
Redisplay ==
    LET shown == DisplayResultsPage(allResults, currentPage', resultsPerPage)
    IN  /\ resultsContainer' = shown.cards
        /\ pagination' = shown.pagination
        /\ uncaught' = IF shown.thrown THEN "TypeError" ELSE "none"
        /\ UNCHANGED <<variant, fileVars, resetButtonDisabled, processingComplete,
                       progressVars, resultsSectionHidden, resultsCount, allResults,
                       resultsPerPage, timers, response, xhrs>>

(* prev-btn click *)
PrevPage ==
    /\ pagination.pages > 0
    /\ pagination.at # 1
    /\ IF currentPage > 1
       THEN currentPage' = currentPage - 1 /\ Redisplay
       ELSE uncaught' = "none" /\ UNCHANGED <<variant, fileVars, resetButtonDisabled,
                processingComplete, progressVars, resultVars, xhrs>>

(* next-btn click *)
NextPage ==
    /\ pagination.pages > 0
    /\ pagination.at # pagination.pages
    /\ IF currentPage < TotalPages(allResults, resultsPerPage)
       THEN currentPage' = currentPage + 1 /\ Redisplay
       ELSE uncaught' = "none" /\ UNCHANGED <<variant, fileVars, resetButtonDisabled,
                processingComplete, progressVars, resultVars, xhrs>>

(* body of the page-btn listener for a button whose data-page parses to   *)
(* pageNumber: window.currentPage = parseInt(...); displayResultsPage()   *)
GoTo(pageNumber) ==
    /\ currentPage' = pageNumber
    /\ Redisplay

(* click on the page-btn whose data-page is `page` *)
GoToPage(page) ==
    /\ page \in 1..pagination.pages
    /\ GoTo(page)

(* ------------------------------ inputs ------------------------------- *)
Entry(path, result, error) == [file_path |-> path, result |-> result, error |-> error]
Payload(success, error, data) == [success |-> success, error |-> error, data |-> data]
ResultsData(successful, failed) ==
    Some([results |-> Some([successful |-> successful, failed |-> failed])])

OkA == Entry(Some(<<"a", "/", "b">>), Some("r"), None)
OkB == Entry(Some(<<"b">>), Some("r"), None)
BareEntry == Entry(None, None, None)
FailC == Entry(Some(<<"c">>), None, Some(<<"bad">>))

(* the response bodies a session of the model can receive *)
SessionResponses ==
    { Payload(FALSE, Some(<<"boom">>), None),
      Payload(TRUE, None, None),
      Payload(TRUE, None, ResultsData(Some(<<OkA, OkB>>), Some(<<FailC>>))),
      Payload(TRUE, None, ResultsData(Some(<<BareEntry>>), Some(<<BareEntry>>))) }

(* ------------------------- session status view ----------------------- *)
(* The scripts keep no status field; the status is what the page shows:    *)
(* the progress block with its status line while a transfer is presented,  *)
(* the results section once showResults ran, neither when idle.            *)
Status ==
    IF ~uploadProgressHidden
    THEN CASE uploadStatus.kind = "Error" -> "Failed"
           [] uploadStatus.kind = "Processing" -> "Processing"
           [] OTHER -> "Uploading"
    ELSE IF ~resultsSectionHidden THEN "Complete" ELSE "Idle"

(* what the page says about the batch as a whole: the backup script       *)
(* writes 'Error' into resultsCount, the main script shows the card        *)
(* headed 'Error Processing Files'                                         *)
OverallStatus ==
    IF variant = "backup"
    THEN IF resultsCount.error THEN "Failed" ELSE "Complete"
    ELSE IF \E i \in 1..Len(resultsContainer) :
               resultsContainer[i].title = <<"Error Processing Files">>
         THEN "Failed" ELSE "Complete"

(* the records the latest showResults produced: the result list of the     *)
(* main script, the queue of card timers of the backup script              *)
Yielded ==
    IF variant = "main" THEN allResults
    ELSE [i \in 1..Len(timers) |-> timers[i].rec]

Next ==
    \/ \E cands \in SeqsUpTo(SessionFiles, MaxCands) : HandleFiles(cands)
    \/ \E index \in 0..(Len(filesToUpload) - 1) : RemoveFile(index)
    \/ \E confirmed \in BOOLEAN : ClearAllFiles(confirmed)
    \/ ResetForm
    \/ StartNewUpload
    \/ HandleUpload
    \/ \E i \in 1..MaxXhr, lc \in BOOLEAN, loaded \in 0..MaxTotal :
          XhrProgress(i, lc, loaded, MaxTotal)
    \/ \E i \in 1..MaxXhr, event \in {"error", "timeout", "loadError"} :
          XhrThrows(i, event)
    \/ \E i \in 1..MaxXhr, resp \in SessionResponses : XhrLoad(i, resp)
    \/ TimerFires
    \/ Tick
    \/ PrevPage
    \/ NextPage
    \/ \E page \in 1..pagination.pages : GoToPage(page)

Spec == Init /\ [][Next]_vars

(* ---------------- the interpreter on its own inputs ------------------ *)
PathChars == {"a", "b", "/"}
Paths == SeqsUpTo(PathChars, MaxPathLen)
Optional(S) == {None} \cup {Some(x) : x \in S}

SuccEntries ==
    {Entry(p, r, None) : p \in Optional({<<>>, <<"a">>, <<"a", "/", "b">>}),
                         r \in Optional({"r"})}
FailEntries ==
    {Entry(p, None, e) : p \in Optional({<<>>, <<"c">>}),
                         e \in Optional({<<>>, <<"bad">>})}

(* payloads of every shape: failures, missing data, missing arrays, lists  *)
(* of well- and ill-formed entries, and one entry per possible path        *)
InterpResponses ==
    {Payload(FALSE, e, None) : e \in Optional({<<>>, <<"boom">>})}
    \cup {Payload(TRUE, None, None), Payload(TRUE, None, Some([results |-> None]))}
    \cup {Payload(TRUE, None, ResultsData(s, f)) :
             s \in Optional(SeqsUpTo(SuccEntries, MaxSucc)),
             f \in Optional(SeqsUpTo(FailEntries, MaxFail))}
    \cup {Payload(TRUE, None, ResultsData(Some(<<Entry(Some(p), Some("r"), None)>>), None)) :
             p \in Paths}

(* one file picked and its upload started: the state in which the          *)
(* response of a first transfer arrives                                    *)
InitInterp ==
    /\ variant \in {"main", "backup"}
    /\ filesToUpload = <<[name |-> "a", size |-> 1]>>
    /\ uploadButtonDisabled = TRUE
    /\ resetButtonDisabled = (variant = "backup")
    /\ resetButtonHidden = (variant = "main")
    /\ processingComplete = FALSE
    /\ uploadProgressHidden = FALSE
    /\ uploadStatus = StatusText("Preparing", "", 0)
    /\ progressPercent = 0
    /\ progressBarUploading = FALSE
    /\ currentFileSpan = IF variant = "backup" THEN "Initializing..." ELSE ""
    /\ resultsSectionHidden = TRUE
    /\ resultsContainer = <<>>
    /\ resultsCount = [error |-> FALSE, total |-> 0]
    /\ allResults = <<>>
    /\ currentPage = 0
    /\ resultsPerPage = 0
    /\ pagination = NoPagination
    /\ xhrs = <<filesToUpload>>
    /\ timers = <<>>
    /\ uncaught = "none"
    /\ response = None

NextInterp ==
    \/ \E resp \in InterpResponses : XhrLoad(1, resp)
    \/ TimerFires
    \/ Tick
    \/ PrevPage
    \/ NextPage
    \/ \E page \in 1..pagination.pages : GoToPage(page)

SpecInterp == InitInterp /\ [][NextInterp]_vars

(* ---------------- the paginator on its own inputs ------------------- *)
(* createPaginationControls and displayResultsPage read the page size and  *)
(* the page number from window.resultsPerPage and window.currentPage, and  *)
(* the page-btn listener takes the number from the button's data-page      *)
(* attribute; here they range over every list length, page size and        *)
(* requested number within the bounds.                                     *)
MaxRecords == 7
MaxPerPage == 3
MaxPageNumber == 10
PageNumbers == (0 - 2)..MaxPageNumber

(* n failed entries with distinct paths, as showResults collects them *)
PagerRecords(n) ==
    [i \in 1..n |-> [type |-> "error",
                     data |-> Entry(Some(<<"c", ToString(i)>>), None, Some(<<"bad">>))]]

(* the main script after showResults has displayed page 1 of n records *)
InitPager ==
    /\ variant = "main"
    /\ filesToUpload = <<>>
    /\ uploadButtonDisabled = FALSE
    /\ resetButtonDisabled = FALSE
    /\ resetButtonHidden = TRUE
    /\ processingComplete = FALSE
    /\ uploadProgressHidden = TRUE
    /\ uploadStatus = StatusText("Preparing", "", 0)
    /\ progressPercent = 0
    /\ progressBarUploading = FALSE
    /\ currentFileSpan = ""
    /\ resultsSectionHidden = FALSE
    /\ resultsCount = [error |-> FALSE, total |-> 0]
    /\ \E n \in 0..MaxRecords : allResults = PagerRecords(n)
    /\ currentPage = 1
    /\ resultsPerPage \in 1..MaxPerPage
    /\ resultsContainer = DisplayResultsPage(allResults, 1, resultsPerPage).cards
    /\ pagination = DisplayResultsPage(allResults, 1, resultsPerPage).pagination
    /\ xhrs = <<>>
    /\ timers = <<>>
    /\ uncaught = "none"
    /\ response = Some(Payload(TRUE, None, None))

NextPager == \E pageNumber \in PageNumbers : GoTo(pageNumber)

SpecPager == InitPager /\ [][NextPager]_vars

(* --------------- the progress listener on its own inputs ------------- *)
MaxBytes == 8
MaxPicked == 3

(* the lists handleUpload sends: the first name must be a valid selector *)
PickedLists ==
    {s \in SeqsUpTo(SessionFiles, MaxPicked) : Len(s) >= 1 /\ SelectorIsValid(s[1].name)}

(* the files picked and their upload started: the state in which the       *)
(* progress events of a first transfer arrive                               *)
InitProgress ==
    /\ variant \in {"main", "backup"}
    /\ filesToUpload \in PickedLists
    /\ uploadButtonDisabled = TRUE
    /\ resetButtonDisabled = (variant = "backup")
    /\ resetButtonHidden = (variant = "main")
    /\ processingComplete = FALSE
    /\ uploadProgressHidden = FALSE
    /\ uploadStatus = StatusText("Preparing", "", 0)
    /\ progressPercent = 0
    /\ progressBarUploading = FALSE
    /\ currentFileSpan = IF variant = "backup" THEN "Initializing..." ELSE ""
    /\ resultsSectionHidden = TRUE
    /\ resultsContainer = <<>>
    /\ resultsCount = [error |-> FALSE, total |-> 0]
    /\ allResults = <<>>
    /\ currentPage = 0
    /\ resultsPerPage = 0
    /\ pagination = NoPagination
    /\ xhrs = <<filesToUpload>>
    /\ timers = <<>>
    /\ uncaught = "none"
    /\ response = None

(* a progress event has lengthComputable set exactly when its total is     *)
(* not 0                                                                    *)
NextProgress ==
    \E total \in 0..MaxBytes, loaded \in 0..MaxBytes :
        (total = 0 \/ loaded <= total) /\ XhrProgress(1, total # 0, loaded, total)

SpecProgress == InitProgress /\ [][NextProgress]_vars

(* ------------------ the file list on its own inputs ------------------ *)
MaxListed == 4
Indices == (0 - MaxListed)..MaxListed

(* the page before any upload, with the files of one drop in the list *)
InitFileSet ==
    /\ variant \in {"main", "backup"}
    /\ filesToUpload \in SeqsUpTo(SessionFiles, MaxListed)
    /\ uploadButtonDisabled = (Len(filesToUpload) = 0)
    /\ resetButtonDisabled = FALSE
    /\ resetButtonHidden = (variant = "main" \/ Len(filesToUpload) = 0)
    /\ processingComplete = FALSE
    /\ uploadProgressHidden = TRUE
    /\ uploadStatus = NoStatus
    /\ progressPercent = 0
    /\ progressBarUploading = FALSE
    /\ currentFileSpan = ""
    /\ resultsSectionHidden = TRUE
    /\ resultsContainer = <<>>
    /\ resultsCount = [error |-> FALSE, total |-> 0]
    /\ allResults = <<>>
    /\ currentPage = 0
    /\ resultsPerPage = 0
    /\ pagination = NoPagination
    /\ xhrs = <<>>
    /\ timers = <<>>
    /\ uncaught = "none"
    /\ response = None

(* handleFiles on any batch and the remove listener on any index *)
NextFileSet ==
    \/ \E cands \in SeqsUpTo(Files, MaxCands) : HandleFiles(cands)
    \/ \E index \in Indices : RemoveFile(index)

SpecFileSet == InitFileSet /\ [][NextFileSet]_vars

(* ============================== claims =============================== *)
Terminal == {"Complete", "Failed"}

(* C1: at most one upload session is active at any time: no sequence of    *)
(* user and transfer events puts a second transfer in flight while one is  *)
(* still running.                                                          *)
C1_OneActiveSession == Len(xhrs) <= 1

(* C2: after every transport-layer failure (error, timeout, load with a    *)
(* status other than 200) the session is Failed, the error is shown and    *)
(* the upload command is available again.                                  *)
C2_TransportFailureFails ==
    uncaught = "Error" => (Status = "Failed" /\ ~uploadButtonDisabled)

(* C3: the pending list never holds two entries with equal name and equal  *)
(* size.                                                                   *)
C3_NoDuplicatePending ==
    \A i, j \in 1..Len(filesToUpload) :
        (filesToUpload[i].name = filesToUpload[j].name
            /\ filesToUpload[i].size = filesToUpload[j].size) => i = j

(* C4: the status never goes from Uploading straight to Complete, and it   *)
(* never returns to Idle from Complete or Failed except by a reset.        *)
C4_NoSkippedState ==
    [][ /\ ~(Status = "Uploading" /\ Status' = "Complete")
        /\ (Status \in Terminal /\ Status' = "Idle") => (ResetForm \/ StartNewUpload)
      ]_vars

(* C5: a reset command is available in every Complete and every Failed     *)
(* state.                                                                  *)
C5_ResetAvailable ==
    Status \in Terminal => (ResetButtonUsable \/ NewUploadButtonUsable)
(* C6: a success: false payload yields exactly one record, a Failure,      *)
(* carrying the payload's error string when present and a fixed fallback   *)
(* when absent, and the overall status Failed.                             *)
C6_FailureAsStated ==
    (response # None /\ ~response[1].success) =>
        /\ Len(resultsContainer) = 1
        /\ resultsContainer[1].type = "error"
        /\ resultsContainer[1].detail =
              (IF response[1].error # None THEN response[1].error[1]
               ELSE <<"An unknown error occurred">>)
        /\ OverallStatus = "Failed"

(* C6 amended: as C6, with the fallback also taken for an empty error      *)
(* string.                                                                 *)
C6_FailureRecord ==
    (response # None /\ ~response[1].success) =>
        /\ Len(resultsContainer) = 1
        /\ resultsContainer[1].type = "error"
        /\ resultsContainer[1].detail =
              (IF response[1].error \in {None, Some(<<>>)}
               THEN <<"An unknown error occurred">>
               ELSE response[1].error[1])
        /\ OverallStatus = "Failed"

C6_Witness ==
    /\ response = Some(Payload(FALSE, Some(<<"boom">>), None))
    /\ Len(resultsContainer) = 1
    /\ resultsContainer[1].detail = <<"boom">>

CountType(records, type) ==
    Cardinality({i \in 1..Len(records) : records[i].type = type})

(* C7: every 200 response, success: false or success: true with failed     *)
(* entries, brings the session to Complete, never to Failed, and the       *)
(* failed entries of the batch become Failure records next to its Success  *)
(* records.                                                                *)
C7_ResponseCompletes ==
    [][ (\E i \in 1..MaxXhr, resp \in SessionResponses : XhrLoad(i, resp)) =>
          /\ Status' = "Complete"
          /\ response'[1].success =>
               /\ CountType(Yielded', "error")
                    = Len(Failed(response'[1]))
                      + (IF variant = "main" THEN 0 ELSE CountType(Yielded, "error"))
               /\ CountType(Yielded', "success")
                    = Len(Successful(response'[1]))
                      + (IF variant = "main" THEN 0 ELSE CountType(Yielded, "success"))
      ]_vars

C7_Witness ==
    /\ Status = "Complete"
    /\ response # None
    /\ response[1].success
    /\ CountType(Yielded, "error") > 0
    /\ CountType(Yielded, "success") > 0

(* data.results.<field> of a payload, an absent level counting as empty *)
C8_Array(resp, field) ==
    IF resp.data = None THEN <<>>
    ELSE IF resp.data[1].results = None THEN <<>>
    ELSE IF resp.data[1].results[1][field] = None THEN <<>>
    ELSE resp.data[1].results[1][field][1]

C8_Expected(resp) ==
    LET s == C8_Array(resp, "successful")
        f == C8_Array(resp, "failed")
    IN  [i \in 1..(Len(s) + Len(f)) |->
            IF i <= Len(s) THEN [type |-> "success", data |-> s[i]]
            ELSE [type |-> "error", data |-> f[i - Len(s)]]]

(* `name` is what follows the last "/" of `path` *)
C8_IsLastSegment(name, path) ==
    /\ \A i \in 1..Len(name) : name[i] # "/"
    /\ Len(name) <= Len(path)
    /\ SubSeq(path, Len(path) - Len(name) + 1, Len(path)) = name
    /\ Len(name) < Len(path) => path[Len(path) - Len(name)] = "/"

C8_NamesAreLastSegments ==
    \A i \in 1..Len(resultsContainer) :
        resultsContainer[i].type = "success" =>
            \E k \in 1..Len(C8_Array(response[1], "successful")) :
                LET e == C8_Array(response[1], "successful")[k]
                IN  /\ e.file_path # None
                    /\ e.result = resultsContainer[i].detail
                    /\ C8_IsLastSegment(resultsContainer[i].title, e.file_path[1])

(* C8: a success: true payload yields one record per successful entry      *)
(* followed by one per failed entry, each group in input order, an absent  *)
(* array counting as empty; the backup script spaces the cards one timer   *)
(* unit apart in that order; the name on every Success card is the last    *)
(* "/"-separated segment of its file_path.                                 *)
C8_OrderedRecords ==
    [][ /\ ((\E resp \in InterpResponses : XhrLoad(1, resp)) /\ response'[1].success) =>
             /\ Yielded' = C8_Expected(response'[1])
             /\ \A i \in 1..Len(timers') : timers'[i].due = i - 1
        /\ C8_NamesAreLastSegments'
      ]_vars

C8_Witness ==
    /\ response # None
    /\ response[1].success
    /\ Len(C8_Array(response[1], "successful")) > 0
    /\ Len(C8_Array(response[1], "failed")) > 0
    /\ \E i \in 1..Len(resultsContainer) :
          resultsContainer[i].type = "success" /\ resultsContainer[i].title = <<"b">>

(* C9: presenting a response with missing optional sub-fields never        *)
(* raises.                                                                 *)
C9_NeverRaises == uncaught # "TypeError"

(* the least k with k * d >= n *)
C10_Ceil(n, d) == CHOOSE k \in 0..n : k * d >= n /\ (k - 1) * d < n

(* C10: whenever the result list is non-empty the current page lies in     *)
(* 1..ceil(len(records) / pageSize).                                       *)
C10_PageInRange ==
    Len(allResults) > 0 =>
        /\ currentPage >= 1
        /\ currentPage <= C10_Ceil(Len(allResults), resultsPerPage)

C10_Witness ==
    /\ Len(allResults) = 3
    /\ currentPage = 3
    /\ Len(resultsContainer) = 1

C11_TotalPages(n, d) == IF C10_Ceil(n, d) < 1 THEN 1 ELSE C10_Ceil(n, d)
C11_Clamp(page, total) == IF page < 1 THEN 1 ELSE IF page > total THEN total ELSE page
C11_Positions(page, n, d) == {k \in 1..n : (page - 1) * d < k /\ k <= page * d}

C12_AtLeastOnePage ==
    /\ TotalPages(allResults, resultsPerPage)
          = C11_TotalPages(Len(allResults), resultsPerPage)
    /\ allResults = <<>> => resultsContainer = <<>>

(* C12, amended: totalPages is ceil(len(records) / pageSize), which is 0   *)
(* for an empty list; the controls carry that many page buttons when it    *)
(* is above 1 and none otherwise, and the view of an empty list is empty.  *)
C12_TotalPages ==
    LET total == TotalPages(allResults, resultsPerPage)
    IN  /\ total = C10_Ceil(Len(allResults), resultsPerPage)
        /\ pagination.pages = IF total <= 1 THEN 0 ELSE total
        /\ allResults = <<>> => total = 0 /\ resultsContainer = <<>>

C12_Witness ==
    /\ allResults = <<>>
    /\ currentPage # 1
    /\ TotalPages(allResults, resultsPerPage) = 0
    /\ pagination = NoPagination
    /\ resultsContainer = <<>>

(* round(100 * t / total): the integer p with p - 1/2 <= 100*t/total < p + 1/2 *)
C13_Round(t, total) ==
    CHOOSE p \in 0..100 : (2 * p - 1) * total <= 200 * t /\ 200 * t < (2 * p + 1) * total

(* C13: after a progress event with 0 <= transferredBytes <= totalBytes    *)
(* and totalBytes > 0 the percent reported is round(100 * transferredBytes *)
(* / totalBytes), within 0..100; after an event with totalBytes = 0 the    *)
(* percent reported is 0 and nothing has been raised.                      *)
C13_PercentReported ==
    [][\A total \in 0..MaxBytes, loaded \in 0..MaxBytes :
         XhrProgress(1, total # 0, loaded, total) =>
            IF total = 0
            THEN progressPercent' = 0 /\ uncaught' = "none"
            ELSE loaded <= total =>
                    /\ progressPercent' = C13_Round(loaded, total)
                    /\ progressPercent' \in 0..100]_vars

(* C14: for a fixed totalBytes > 0 the reported percent is monotonic in    *)
(* transferredBytes: when the percent shown is the one reported for t1     *)
(* and an event with t2 >= t1 of the same total arrives, the percent       *)
(* reported for it is not lower.                                           *)
C14_Monotonic ==
    [][\A total \in 1..MaxBytes, t1 \in 0..MaxBytes, t2 \in 0..MaxBytes :
         ( /\ t1 <= t2 /\ t2 <= total
           /\ progressPercent = PercentComplete(t1, total)
           /\ XhrProgress(1, TRUE, t2, total) )
         => progressPercent' >= progressPercent]_vars

C14_Witness ==
    /\ progressPercent = 63
    /\ uploadStatus = StatusText("Uploading", IF variant = "main" THEN "a" ELSE "", 63)

(* the name the page shows for the file in transfer *)
C15_Shown == IF variant = "backup" THEN currentFileSpan ELSE uploadStatus.file

(* C15: after every progress event with at least one pending file the      *)
(* file shown as current is the one at index                               *)
(* min(floor(percent/100 * fileCount), fileCount - 1), with percent the    *)
(* rounded percent reported for the same event.                            *)
C15_CurrentFile ==
    [][\A total \in 1..MaxBytes, loaded \in 0..MaxBytes :
         ( /\ loaded <= total
           /\ Len(filesToUpload) >= 1
           /\ XhrProgress(1, TRUE, loaded, total) )
         => LET n == Len(filesToUpload)
                byPercent == (progressPercent' * n) \div 100
                index == IF byPercent < n - 1 THEN byPercent ELSE n - 1
            IN  C15_Shown' = filesToUpload[index + 1].name]_vars

(* C16: when a progress event reports 100 while the session is Uploading,  *)
(* the status once its handler has finished is Processing; the session     *)
(* becomes Complete only in the step in which a response arrives.          *)
C16_HundredIsProcessing ==
    [][ /\ \A i \in 1..MaxXhr, loaded \in 0..MaxTotal :
              ( /\ Status = "Uploading"
                /\ XhrProgress(i, TRUE, loaded, MaxTotal)
                /\ progressPercent' = 100 )
              => Status' = "Processing"
        /\ (Status # "Complete" /\ Status' = "Complete")
              => \E i \in 1..MaxXhr, resp \in SessionResponses : XhrLoad(i, resp)
      ]_vars

(* the list without the element at 0-based position index *)
C17_Without(s, index) == [j \in 1..(Len(s) - 1) |-> IF j <= index THEN s[j] ELSE s[j + 1]]

C18_Kept(s, t) == Len(s) <= Len(t) /\ SubSeq(t, 1, Len(s)) = s

(* C18: files leave the pending list only by a remove, a clear or reset,   *)
(* or the arrival of the response to their submission, and when the        *)
(* response to a batch has arrived none of its files is pending.           *)
C18_SubmittedLeave ==
    [][ /\ ~C18_Kept(filesToUpload, filesToUpload')
              => \/ \E index \in 0..(Len(filesToUpload) - 1) : RemoveFile(index)
                 \/ ClearAllFiles(TRUE)
                 \/ ResetForm
                 \/ StartNewUpload
                 \/ \E i \in 1..MaxXhr, resp \in SessionResponses : XhrLoad(i, resp)
        /\ \A i \in 1..MaxXhr, resp \in SessionResponses :
              XhrLoad(i, resp) => Range(xhrs[i]) \cap Range(filesToUpload') = {}
      ]_vars

(* C19: add(candidates) appends exactly the candidates that equal no file  *)
(* already pending in name and size, in their order, and never fails.      *)
C19_AddSkipsPending ==
    [][\A cands \in SeqsUpTo(Files, MaxCands) :
         HandleFiles(cands) =>
            /\ filesToUpload' =
                  filesToUpload \o SelectSeq2(cands, Range(cands) \ Range(filesToUpload), 1)
            /\ uncaught' = "none"]_vars

(* C20: with a non-empty pending list the upload command is available      *)
(* exactly when the status is Idle, Complete or Failed, and unavailable    *)
(* when it is Uploading or Processing.                                     *)
C20_CanStartUpload ==
    Len(filesToUpload) > 0 =>
        (~uploadButtonDisabled <=> Status \in {"Idle", "Complete", "Failed"})

RECURSIVE C21_IsSubsequence(_, _)
(* s can be obtained from t by leaving elements out, the order kept *)
C21_IsSubsequence(s, t) ==
    IF s = <<>> THEN TRUE
    ELSE IF t = <<>> THEN FALSE
    ELSE IF Head(s) = Head(t) THEN C21_IsSubsequence(Tail(s), Tail(t))
    ELSE C21_IsSubsequence(s, Tail(t))

(* C21: the pending list keeps insertion order: an add leaves the files    *)
(* already pending where they are and puts the accepted candidates behind  *)
(* them in the order given, and a remove takes out at most one position    *)
(* and leaves the other files in their order.                              *)
C21_InsertionOrder ==
    [][ /\ \A cands \in SeqsUpTo(Files, MaxCands) :
              HandleFiles(cands) =>
                 /\ C18_Kept(filesToUpload, filesToUpload')
                 /\ C21_IsSubsequence(
                        SubSeq(filesToUpload', Len(filesToUpload) + 1, Len(filesToUpload')),
                        cands)
        /\ \A index \in Indices :
              RemoveFile(index) =>
                 \/ filesToUpload' = filesToUpload
                 \/ \E k \in 0..(Len(filesToUpload) - 1) :
                       filesToUpload' = C17_Without(filesToUpload, k)
      ]_vars

C21_Witness ==
    /\ Len(filesToUpload) = 2
    /\ filesToUpload[1] = [name |-> "a", size |-> 1]
    /\ filesToUpload[2] = [name |-> "q\"", size |-> 2]

(* C22: every file that the arrival of a response takes out of the pending *)
(* list was in the batch that the answered upload sent.                    *)
C22_OnlySubmittedDiscarded ==
    [][\A i \in 1..MaxXhr, resp \in SessionResponses :
         XhrLoad(i, resp) =>
            (Range(filesToUpload) \ Range(filesToUpload')) \subseteq Range(xhrs[i])]_vars

(* the cards of the records of a response, in order *)
C23_Cards(resp) ==
    IF resp.success
    THEN [k \in 1..Len(CollectResults(resp)) |-> RecordCard(CollectResults(resp)[k])]
    ELSE <<SystemErrorCard(resp)>>

(* C23: in the script that appends its cards through timers, once no timer *)
(* is pending the cards shown are exactly those of the records of the most *)
(* recent response, in order (taken here for the responses whose cards can *)
(* all be built, the others being the case of C9).                         *)
C23_NoStaleCards ==
    ( /\ variant = "backup"
      /\ timers = <<>>
      /\ response # None
      /\ \A k \in 1..Len(CollectResults(response[1])) :
            ~RecordThrows(CollectResults(response[1])[k]) )
    => resultsContainer = C23_Cards(response[1])
====
